---- MODULE Spec2Model ----
(***************************************************************************)
(* The task execution engine: a registry of named backends, the dispatch   *)
(* futures the backends return, and Engine::run driving them.              *)
(*                                                                         *)
(* A dispatch future is a record whose pc names the operation it is        *)
(* suspended in; Drive polls one future: the operation returns what the    *)
(* daemon, the remote service or the shell returned (chosen with \E), and  *)
(* the future runs on to its next operation.                               *)
(***************************************************************************)
EXTENDS Integers, Sequences, FiniteSets, TLC

VARIABLES
    phase,      \* "building": Engine owned by the caller; "running": inside run();
                \* "done": run() returned; "panicked": a panic unwound;
                \* "dropped": the future of run() was dropped
    runners,    \* Engine.runners: IndexMap<String, Runner>, in insertion order
    futs,       \* every dispatch future ever created, by submission number
    chans,      \* the one-shot channels, by channel number
    handles,    \* the submitter's calls: the Handle each submit returned
    pending,    \* the FuturesUnordered that run() drives
    pos,        \* the progress bar: its length and position
    made,       \* the number of backend objects constructed so far
    remote,     \* the remote task-execution service: its tasks, by task id
    call,       \* the last call made on the Engine and the name passed to it
    latest,     \* per name, the backend object most recently registered under it
    log,        \* what the one dispatch future under study has done, in order:
                \* shell commands, requests or operations, with their answers
    builder,    \* a task Builder in the caller's hands: Some(fields), None once moved
    outcome,    \* what the last call on the Builder returned
    calls,      \* the calls made on the Builder, in order
    template,   \* the string handed to substitute_placeholders
    bindings,   \* the substitutions map, in the order its iterator yields it
    result,     \* what the calls of substitute_placeholders returned, in order
    input,      \* the contents of an Input handed to fetch
    files,      \* the file system fetch reads, by path
    fetched     \* what Input::fetch returned: None before the call

engineVars ==
    <<phase, runners, futs, chans, handles, pending, pos, made, remote, call, latest>>
builderVars == <<builder, outcome, calls>>
substVars == <<template, bindings, result>>
fetchVars == <<input, files, fetched>>

vars == <<engineVars, log, builderVars, substVars, fetchVars>>

\* What a step of the engine, of a Builder, of a substitution leaves alone.
notEngine == <<log, builderVars, substVars, fetchVars>>
notBuilder == <<engineVars, log, substVars, fetchVars>>
notSubst == <<engineVars, log, builderVars, fetchVars>>
notFetch == <<engineVars, log, builderVars, substVars>>

----------------------------------------------------------------------------
(* Bounds                                                                  *)

MaxSubmits == 2
MaxExecs == 2
MaxRegs == 2

Names == {"a", "b"}

\* Option<T>: <<>> is None, <<v>> is Some(v)
None == <<>>
Some(v) == <<v>>

Max(a, b) == IF a > b THEN a ELSE b

----------------------------------------------------------------------------
(* Tasks                                                                   *)

\* Execution: args names the command by its place in the task; exit is the
\* exit code the command ends with when it is run.
Execution(i) == [args |-> i, exit |-> (i + 1) % 2]

\* A built Task: at least one execution (builder.rs try_build). The task
\* with n executions has n - 1 inputs and volumes: one execution and
\* nothing to stage, or a sequence of executions sharing staged data.
Task(n) ==
    [executions |-> [i \in 1..n |-> Execution(i)],
     inputs |-> [j \in 1..(n - 1) |-> j],
     volumes |-> [j \in 1..(n - 1) |-> j]]

Tasks == {Task(n) : n \in 1..MaxExecs}

\* ExecutionResult { status, stdout, stderr }: what the i-th command of
\* submission s wrote to its standard output is the token <<s, i>>, and to
\* its standard error the token <<s, i, "stderr">>.
ExecutionResult(status, s, i) ==
    [status |-> status, stdout |-> <<s, i>>, stderr |-> <<s, i, "stderr">>]

\* Reply { backend, executions }
Reply(name, results) == [backend |-> name, executions |-> results]

----------------------------------------------------------------------------
(* Backends                                                                *)

\* A backend object: id names the object, kind its implementation;
\* cleanup is DockerBackend.cleanup.
Backend(id, kind, cleanup) == [id |-> id, kind |-> kind, cleanup |-> cleanup]

\* GenericBackend: the backend with the optional fields of its
\* configuration.
GenericBackend(id, conf) ==
    [id |-> id, kind |-> "generic", cleanup |-> FALSE,
     runtime_attributes |-> conf.runtime_attributes,
     default_cpu |-> conf.default_cpu, default_ram_mb |-> conf.default_ram_mb,
     job_id_regex |-> conf.job_id_regex, monitor |-> conf.monitor,
     monitor_frequency |-> conf.monitor_frequency, kill |-> conf.kill]

\* A HashMap<String, String>: a function on its keys.
EmptyMap == <<>>
MapInsert(m, k, v) == (k :> v) @@ m
OrInsert(m, k, v) == IF k \in DOMAIN m THEN m ELSE MapInsert(m, k, v)

\* The configurations drawn: every field present or absent, the runtime
\* attributes with or without the keys that have a default.
KillTemplates == {None, Some(<<"kill", "~{job_id}">>)}
Frequencies == {None, Some(2)}
RuntimeAttributes ==
    {None, Some(EmptyMap), Some("queue" :> "q"), Some("memory_mb" :> "512"),
     Some(("memory_mb" :> "512") @@ ("cpu" :> "8"))}
JobIdRegexes == {None, Some(<<"Job <(", "\\d+", ")>">>)}
MonitorTemplates == {None, Some(<<"bjobs", "~{job_id}">>)}
Configs ==
    [runtime_attributes : RuntimeAttributes,
     default_cpu : {None, Some(1)}, default_ram_mb : {None, Some(4096)},
     job_id_regex : JobIdRegexes, monitor : MonitorTemplates,
     monitor_frequency : Frequencies, kill : KillTemplates]

\* A configuration with every template and nothing else.
TemplatesOnly ==
    [runtime_attributes |-> None, default_cpu |-> None, default_ram_mb |-> None,
     job_id_regex |-> Some(<<"Job <(", "\\d+", ")>">>),
     monitor |-> Some(<<"bjobs", "~{job_id}">>),
     monitor_frequency |-> None, kill |-> None]


BackendKinds ==
    {<<"docker", TRUE>>, <<"docker", FALSE>>, <<"tes", FALSE>>, <<"generic", FALSE>>}

\* The future a backend's run() returns: nothing of it has run yet.
NewFuture(s, backend, name, task, cb) ==
    [sub |-> s, backend |-> backend, name |-> name, task |-> task, cb |-> cb,
     pc |-> "init", idx |-> 0, inp |-> 0, results |-> <<>>, cur |-> None,
     task_id |-> 0, started |-> FALSE, touched |-> 0, sent |-> 0,
     tmp_mounts |-> <<>>, tmp_dirs |-> 0]

\* Variant: run() performs its first operation before it returns the future.
BackendRunEager(s, backend, name, task, cb) ==
    [NewFuture(s, backend, name, task, cb) EXCEPT !.started = TRUE]

\* Backend::run: the future bound to the task and the sender; the async
\* block has not been entered.
BackendRun(s, backend, name, task, cb) == NewFuture(s, backend, name, task, cb)

\* A panic in the future: unwinding drops what the async block owns, the
\* TmpMounts with their TempDirs among it.
Panic(f) == [f EXCEPT !.pc = "panicked", !.tmp_mounts = <<>>]

\* An operation of execution f.idx has been performed.
Did(f) == [f EXCEPT !.started = TRUE, !.touched = Max(f.touched, f.idx)]

\* What an awaited operation returned: ok, whether it succeeded; what, the
\* kind of answer, for a remote task its state; logs, what the answer
\* carries: for a remote task its task logs, one per attempt, each the
\* sequence of its executor logs, None when the task object has no logs;
\* for an inspected exec its exit code, None when the daemon reports none.
Response(ok, what, logs) == [ok |-> ok, what |-> what, logs |-> logs]

\* Option::unwrap_or, Option::unwrap_or_default
UnwrapOr(opt, default) == IF opt = None THEN default ELSE opt[1]

\* The width of ExecutionResult.status, an unsigned integer, scaled from
\* 64 bits to what the model's integers can hold.
StatusBits == 8

\* `as u64`: the value modulo two to the width of the target type.
AsU64(c) == c % (2 ^ StatusBits)

\* tes::task::State
Executing == {"Unknown", "Queued", "Initializing", "Running", "Paused"}
Terminal == {"Complete", "ExecutorError", "SystemError", "Canceled"}

\* State::is_executing
IsExecuting(state) == state \in Executing

\* The executor log of a remote task: every field is optional.
ExecutorLog(exit_code, stdout, stderr) ==
    [exit_code |-> exit_code, stdout |-> stdout, stderr |-> stderr]

\* The executors a remote task of n executors ran, attempt by attempt. A
\* task that is Complete ran every executor in its last attempt, after no
\* other attempt or after one that failed in its first executor; a task
\* that ended otherwise ran the first k executors.
CompleteLogs(n) == {<<[j \in 1..n |-> j]>>, <<<<1>>, [j \in 1..n |-> j]>>}
PartialLogs(n) == {<<[j \in 1..k |-> j]>> : k \in 0..n}

\* The task logs the service reports of the task it holds under id, the
\* attempts having run the executors named: every executor log carries
\* the exit code and the output of its executor.
Reported(rem, futures, id, attempts) ==
    LET owner == rem[id] IN
    [a \in DOMAIN attempts |->
        [k \in DOMAIN attempts[a] |->
            LET j == attempts[a][k] IN
            ExecutorLog(Some(futures[owner].task.executions[j].exit),
                        Some(<<owner, j>>), Some(<<owner, j, "stderr">>))]]

\* The answers the operation a future is suspended in can return.
ResponsesFor(f) ==
    CASE f.pc \in {"init", "sleep"} ->
            {Response(b, "unit", <<>>) :
                b \in IF f.pc = "init" /\ f.backend.kind = "docker"
                         /\ Len(f.task.volumes) > 0
                      THEN BOOLEAN ELSE {TRUE}}
      [] f.pc = "get_task" ->
            {Response(FALSE, "error", None), Response(TRUE, "malformed", None),
             Response(TRUE, "no state", None)}
            \cup {Response(TRUE, st, None) : st \in Executing \cup Terminal}
            \cup {Response(TRUE, "Complete", Some(Reported(remote, futs, f.task_id, l))) :
                    l \in CompleteLogs(Len(f.task.executions))}
            \cup {Response(TRUE, st, Some(Reported(remote, futs, f.task_id, l))) :
                    st \in Terminal \ {"Complete"},
                    l \in PartialLogs(Len(f.task.executions))}
      [] f.pc = "inspect_exec" ->
            {Response(b, "exit_code", Some(f.task.executions[f.idx].exit)) : b \in BOOLEAN}
      [] f.pc = "submit" ->
            {Response(b, w, <<>>) :
                b \in BOOLEAN, w \in {"matched", "no match", "signal", "stderr"}}
      [] f.pc = "monitor" ->
            {Response(b, w, <<>>) : b \in BOOLEAN, w \in {"zero", "nonzero", "signal"}}
      [] OTHER -> {Response(b, "unit", <<>>) : b \in BOOLEAN}

\* Variant: the loop goes on to the next execution without its result.
PushLost(f, res) ==
    IF f.idx < Len(f.task.executions)
    THEN [f EXCEPT !.cur = None, !.idx = f.idx + 1,
                   !.pc = IF f.backend.kind = "docker" THEN "create" ELSE "submit"]
    ELSE [f EXCEPT !.results = Append(f.results, res), !.cur = None, !.pc = "send"]

\* docker.rs, generic.rs: the end of the loop body: push the result, then
\* either the next execution begins or the Reply is sent.
Push(f, res) ==
    LET results == Append(f.results, res) IN
    IF f.idx < Len(f.task.executions)
    THEN [f EXCEPT !.results = results, !.cur = None, !.idx = f.idx + 1,
                   !.pc = IF f.backend.kind = "docker" THEN "create" ELSE "submit"]
    ELSE [f EXCEPT !.results = results, !.cur = None, !.pc = "send"]

\* container_exec: `exec_inspect.exit_code.unwrap_or(-1) as u64`
DockerStatus(exit_code) == AsU64(UnwrapOr(exit_code, -1))

\* TmpMount::from_str(s): a temporary directory of its own, TempDir::new(),
\* named here by the count of those the future made, and the path s it is
\* mounted at in the containers.
TmpMount(s, dir) == [local_path |-> dir, container_path |-> s]

\* `task.volumes().into_iter().flatten().map(|s| TmpMount::from_str(s).unwrap()).collect()`
TmpMounts(f) ==
    [j \in DOMAIN f.task.volumes |-> TmpMount(f.task.volumes[j], f.tmp_dirs + j)]

\* From<&TmpMount> for Mount: the bind mount of the directory.
MountOf(tm) == [target |-> tm.container_path, source |-> tm.local_path, typ |-> "bind"]

\* Variant: only the first container of the task is given the mounts.
MountsOfFirst(f) ==
    IF f.idx = 1 THEN [j \in DOMAIN f.tmp_mounts |-> MountOf(f.tmp_mounts[j])] ELSE <<>>

\* `tmp_mounts.iter().map(|tm| tm.into()).collect()`, what container_create
\* is given as the mounts of the container.
Mounts(f) == [j \in DOMAIN f.tmp_mounts |-> MountOf(f.tmp_mounts[j])]

\* Variant: the command is run in a container nothing was uploaded to.
AfterStartNoInputs(f) == [f EXCEPT !.pc = "create_exec"]

\* DockerBackend::run after container_start: the inputs of the task, one
\* after the other, then the command.
AfterStart(f) ==
    IF Len(f.task.inputs) > 0
    THEN [f EXCEPT !.pc = "insert_input", !.inp = 1]
    ELSE [f EXCEPT !.pc = "create_exec"]

\* Variant: the container is left as it is, whatever `cleanup`.
AfterExecKeep(f, res) == Push(f, res)

\* DockerBackend::run after container_exec: `if cleanup { kill; remove }`,
\* then the result is pushed.
AfterExec(f, res) ==
    IF f.backend.cleanup
    THEN [f EXCEPT !.cur = Some(res), !.pc = "kill_container"]
    ELSE Push(f, res)

\* DockerBackend::run: one poll of the future, r being what the awaited
\* operation returned. Every failed operation is unwrapped: a panic.
DockerPoll(f, r) ==
    CASE f.pc = "init" ->
            \* the temporary directories of the volumes, then the first name
            IF ~r.ok THEN Panic(f)
            ELSE IF Len(f.task.volumes) > 0
                 THEN [Did(f) EXCEPT !.idx = 1, !.pc = "create",
                                     !.tmp_mounts = TmpMounts(f),
                                     !.tmp_dirs = f.tmp_dirs + Len(f.task.volumes)]
                 ELSE [f EXCEPT !.idx = 1, !.pc = "create"]
      [] f.pc = "create" ->
            IF r.ok THEN [Did(f) EXCEPT !.pc = "start"] ELSE Panic(f)
      [] f.pc = "start" ->
            IF ~r.ok THEN Panic(f) ELSE AfterStart(Did(f))
      [] f.pc = "insert_input" ->
            IF ~r.ok THEN Panic(f)
            ELSE IF f.inp < Len(f.task.inputs)
                 THEN [Did(f) EXCEPT !.inp = f.inp + 1]
                 ELSE [Did(f) EXCEPT !.pc = "create_exec", !.inp = 0]
      [] f.pc = "create_exec" ->
            IF r.ok THEN [Did(f) EXCEPT !.pc = "start_exec"] ELSE Panic(f)
      [] f.pc = "start_exec" ->
            IF r.ok THEN [Did(f) EXCEPT !.pc = "inspect_exec"] ELSE Panic(f)
      [] f.pc = "inspect_exec" ->
            IF ~r.ok THEN Panic(f)
            ELSE AfterExec(Did(f), ExecutionResult(DockerStatus(r.logs), f.sub, f.idx))
      [] f.pc = "kill_container" ->
            IF r.ok THEN [Did(f) EXCEPT !.pc = "remove_container"] ELSE Panic(f)
      [] f.pc = "remove_container" ->
            IF r.ok THEN Push(Did(f), f.cur[1]) ELSE Panic(f)

\* The remote service, POST /tasks: the task is stored under an id of its
\* own, which is the answer. rem[id] is the submission whose task it is.
CreateTask(rem, s) == [id |-> Len(rem) + 1, remote |-> Append(rem, s)]

\* `.into_iter().flat_map(|task| task.logs)`: the executor logs of every
\* task log, in a row.
RECURSIVE FlatMapLogs(_)
FlatMapLogs(task_logs) ==
    IF task_logs = <<>> THEN <<>>
    ELSE Head(task_logs) \o FlatMapLogs(Tail(task_logs))

\* tes.rs: the ExecutionResult made of one executor log.
TesResult(l) ==
    [status |-> AsU64(UnwrapOr(l.exit_code, 0)),
     stdout |-> UnwrapOr(l.stdout, <<>>),
     stderr |-> UnwrapOr(l.stderr, <<>>)]

\* Variant: only the executor logs of the last task log make results.
TesResultsLastAttempt(task_logs) ==
    LET logs == IF task_logs = <<>> THEN <<>> ELSE task_logs[Len(task_logs)] IN
    [k \in 1..Len(logs) |-> TesResult(logs[k])]

\* tes.rs: the results of a terminal remote task: one per executor log of
\* every task log, in order.
TesResults(task_logs) ==
    LET logs == FlatMapLogs(task_logs) IN
    [k \in 1..Len(logs) |-> TesResult(logs[k])]

\* TesBackend::run: `if !state.is_executing()`
TesDone(state) == ~IsExecuting(state)

\* TesBackend::run: one poll of the future. create_task is unwrapped; a
\* get_task that fails or reports no state is tried again at once (a body
\* that does not parse is unwrapped inside get_task); an executing state
\* sleeps; any other state builds the Reply, unwrapping the logs and the
\* first result. cur keeps the state that ended the polling.
TesPoll(f, r, rem, futures) ==
    CASE f.pc = "init" -> [f EXCEPT !.pc = "create_task"]
      [] f.pc = "create_task" ->
            IF r.ok
            THEN [Did(f) EXCEPT !.task_id = CreateTask(rem, f.sub).id, !.pc = "get_task"]
            ELSE Panic(f)
      [] f.pc = "get_task" ->
            IF ~r.ok \/ r.what = "no state" THEN Did(f)
            ELSE IF r.what = "malformed" THEN Panic(Did(f))
            ELSE IF ~TesDone(r.what) THEN [Did(f) EXCEPT !.pc = "sleep"]
            ELSE IF r.logs = None \/ Len(TesResults(r.logs[1])) = 0
                 THEN [Panic(Did(f)) EXCEPT !.cur = Some(r.what)]
            ELSE [Did(f) EXCEPT !.results = TesResults(r.logs[1]),
                                !.cur = Some(r.what), !.pc = "send"]
      [] f.pc = "sleep" -> [f EXCEPT !.pc = "get_task"]

\* The exit code of a monitor run that was not ended by a signal.
MonitorCode(what) == IF what = "zero" THEN 0 ELSE 1

\* Variant: the loop is left when the monitor command exits 0.
MonitorBreaksOnZero(code) == code = 0

\* process_command: `if monitor_output.status.code()? != 0 { break; }`
MonitorBreaks(code) == code # 0

\* Variant: the result carries the exit code of the last monitor run.
ProcessResultOfMonitor(f, submit_code, monitor_code) ==
    ExecutionResult(monitor_code, f.sub, f.idx)

\* process_command: the ExecutionResult it returns: the exit code and the
\* output of the submit command.
ProcessResult(f, submit_code, monitor_code) ==
    ExecutionResult(submit_code, f.sub, f.idx)

\* GenericBackend::process_command and GenericRunner::run: one step of
\* the future. The submit command is run and the job id captured from
\* its output (unwrapped); the monitor command is run until it exits
\* non-zero, with a sleep after each zero exit; the result carries what
\* the submit command returned. A command that cannot be spawned and a
\* missing capture panic at once; a monitor run ended by a signal, and a
\* submit command that was ended by a signal or whose standard error is
\* not UTF-8 once the loop is left, make process_command return None,
\* which run() unwraps.
GenericPoll(f, r) ==
    CASE f.pc = "init" -> [f EXCEPT !.idx = 1, !.pc = "submit"]
      [] f.pc = "submit" ->
            IF ~r.ok \/ f.backend.job_id_regex = None \/ r.what = "no match"
               \/ f.backend.monitor = None
            THEN Panic(Did(f))
            ELSE LET code == IF r.what \in {"signal", "stderr"} THEN None
                             ELSE Some(f.task.executions[f.idx].exit)
                 IN [Did(f) EXCEPT !.cur = Some(code), !.pc = "monitor"]
      [] f.pc = "monitor" ->
            IF ~r.ok \/ r.what = "signal" THEN Panic(Did(f))
            ELSE IF ~MonitorBreaks(MonitorCode(r.what)) THEN [Did(f) EXCEPT !.pc = "sleep"]
            ELSE IF f.cur[1] = None THEN Panic(Did(f))
            ELSE Push(Did(f), ProcessResult(f, f.cur[1][1], MonitorCode(r.what)))
      [] f.pc = "sleep" -> [f EXCEPT !.pc = "monitor"]

\* One poll of a dispatch future.
Poll(f, r, rem, futures) ==
    CASE f.backend.kind = "docker" -> DockerPoll(f, r)
      [] f.backend.kind = "tes" -> TesPoll(f, r, rem, futures)
      [] f.backend.kind = "generic" -> GenericPoll(f, r)

----------------------------------------------------------------------------
(* One-shot channels                                                       *)

\* tokio::sync::oneshot::channel(): both ends open, no value.
NewChannel == [tx |-> "open", rx |-> "open", value |-> None]

\* Sender::send: the value is stored unless the receiver is gone, and the
\* sender is consumed either way; ok is what send returned.
Send(ch, v) ==
    IF ch.rx = "open"
    THEN [chan |-> [ch EXCEPT !.tx = "sent", !.value = Some(v)], ok |-> TRUE]
    ELSE [chan |-> [ch EXCEPT !.tx = "sent"], ok |-> FALSE]

\* A Sender dropped without sending closes the channel.
DropSender(ch) == IF ch.tx = "open" THEN [ch EXCEPT !.tx = "dropped"] ELSE ch

----------------------------------------------------------------------------
(* Engine                                                                  *)

\* IndexMap::get_index_of: the place of name in the map, 0 when absent.
RunnerIndex(rs, name) ==
    IF \E i \in 1..Len(rs) : rs[i].name = name
    THEN CHOOSE i \in 1..Len(rs) : rs[i].name = name
    ELSE 0

\* Runner::new
NewRunner(name, backend) == [name |-> name, backend |-> backend, tasks |-> {}]

\* Variant: every insertion appends an entry.
InsertAppend(rs, name, runner) == Append(rs, [name |-> name, runner |-> runner])

\* IndexMap::insert: a present key keeps its place and its value is
\* replaced; an absent key is appended.
Insert(rs, name, runner) ==
    LET i == RunnerIndex(rs, name) IN
    IF i = 0 THEN Append(rs, [name |-> name, runner |-> runner])
    ELSE [rs EXCEPT ![i] = [name |-> name, runner |-> runner]]

\* Variant: the futures of a replaced Runner are kept.
ReplacedNone(rs, name) == {}

\* The futures a replaced Runner owned: they are dropped with it.
Replaced(rs, name) ==
    LET i == RunnerIndex(rs, name) IN
    IF i = 0 THEN {} ELSE rs[i].runner.tasks

\* No generic future has run a command; no Builder is in anyone's hands;
\* substitute_placeholders is not being called.
GenericIdle == log = <<>>
BuilderIdle == builder = None /\ outcome = None /\ calls = <<>>
SubstIdle == template = <<>> /\ bindings = <<>> /\ result = <<>>
FetchIdle == input = <<>> /\ files = <<>> /\ fetched = <<>>

\* Engine::empty()
EngineEmpty ==
    /\ phase = "building"
    /\ runners = <<>>
    /\ futs = <<>>
    /\ chans = <<>>
    /\ handles = <<>>
    /\ pending = {}
    /\ pos = [len |-> 0, position |-> 0]
    /\ made = 0
    /\ remote = <<>>
    /\ call = [op |-> "empty", name |-> ""]
    /\ latest = [n \in Names |-> 0]

Init == EngineEmpty /\ GenericIdle /\ BuilderIdle /\ SubstIdle /\ FetchIdle

\* Engine::with_backend: the runner of a new backend object is inserted
\* under name; a runner it replaces is dropped with its pending futures,
\* and with each future its sender.
WithBackend(name, kind) ==
    /\ phase = "building"
    /\ made < MaxRegs
    /\ LET backend == IF kind[1] = "generic"
                      THEN GenericBackend(made + 1, TemplatesOnly)
                      ELSE Backend(made + 1, kind[1], kind[2])
           gone == Replaced(runners, name)
       IN /\ runners' = Insert(runners, name, NewRunner(name, backend))
          /\ futs' = [s \in DOMAIN futs |->
                        IF s \in gone THEN [futs[s] EXCEPT !.pc = "dropped"] ELSE futs[s]]
          /\ chans' = [c \in DOMAIN chans |->
                        IF \E s \in gone : futs[s].cb = c
                        THEN DropSender(chans[c]) ELSE chans[c]]
    /\ made' = made + 1
    /\ call' = [op |-> "with_backend", name |-> name]
    /\ latest' = [latest EXCEPT ![name] = made + 1]
    /\ UNCHANGED <<phase, handles, pending, pos, remote>>
    /\ UNCHANGED notEngine

\* Variant: the first runner is taken whatever its name.
LookupFirst(rs, name) == IF Len(rs) > 0 THEN 1 ELSE 0

\* Engine::submit: self.runners.get(name)
Lookup(rs, name) == RunnerIndex(rs, name)

\* Variant: one channel per engine, reused by every submission.
FreshChannelShared(cs) == 1

\* Runner::submit: the channel this submission gets
FreshChannel(cs) == Len(cs) + 1

\* Engine::submit and Runner::submit: an unknown name panics; otherwise a
\* fresh channel is made, the backend's future is pushed onto the runner's
\* tasks and the receiving end is returned.
Submit(name, task) ==
    /\ phase = "building"
    /\ Len(futs) < MaxSubmits
    /\ LET i == Lookup(runners, name) IN
       IF i = 0
       THEN /\ phase' = "panicked"
            /\ UNCHANGED <<runners, futs, chans, handles>>
       ELSE LET s == Len(futs) + 1
                c == FreshChannel(chans)
                runner == runners[i].runner
                fut == BackendRun(s, runner.backend, runner.name, task, c)
            IN /\ chans' = IF c \in DOMAIN chans
                           THEN [chans EXCEPT ![c] = NewChannel]
                           ELSE Append(chans, NewChannel)
               /\ futs' = Append(futs, fut)
               /\ runners' = [runners EXCEPT ![i].runner.tasks = @ \cup {s}]
               /\ handles' = Append(handles, [callback |-> c, name |-> name, task |-> task])
               /\ UNCHANGED phase
    /\ call' = [op |-> "submit", name |-> name]
    /\ UNCHANGED <<pending, pos, made, remote, latest>>
    /\ UNCHANGED notEngine

\* The submitter drops the receiver of a Handle.
DropHandle(h) ==
    /\ phase \in {"building", "running"}
    /\ chans[handles[h].callback].rx = "open"
    /\ chans' = [chans EXCEPT ![handles[h].callback].rx = "dropped"]
    /\ UNCHANGED <<phase, runners, futs, handles, pending, pos, made, remote, call, latest>>
    /\ UNCHANGED notEngine

\* Engine::run, up to its loop: every runner's tasks are moved into one
\* FuturesUnordered and the progress bar gets its length.
Drained(rs) == UNION {rs[i].runner.tasks : i \in 1..Len(rs)}

\* Engine::run: the loop ends when the FuturesUnordered yields None.
RunOver(left) == left = {}

RunStart ==
    /\ phase = "building"
    /\ pending' = Drained(runners)
    /\ pos' = [len |-> Cardinality(pending'), position |-> 0]
    /\ phase' = IF RunOver(pending') THEN "done" ELSE "running"
    /\ runners' = <<>>
    /\ call' = [op |-> "run", name |-> ""]
    /\ latest' = [n \in Names |-> 0]
    /\ UNCHANGED <<futs, chans, handles, made, remote>>
    /\ UNCHANGED notEngine

\* Variant: the futures are awaited one after the other.
RunnableInOrder(left) == {s \in left : \A u \in left : s <= u}

\* The futures run() may poll next: FuturesUnordered polls every future
\* that was woken, in no order.
Runnable(left) == left

\* Variant: the result of send is unwrapped.
AfterSendUnwrap(f, ok) ==
    IF ok THEN [f EXCEPT !.pc = "done", !.sent = f.sent + 1]
    ELSE [f EXCEPT !.pc = "panicked", !.sent = f.sent + 1]

\* `let _ = cb.send(reply)`: what send returned is ignored.
\* The async block ends there and drops what it owns.
AfterSend(f, ok) == [f EXCEPT !.pc = "done", !.sent = f.sent + 1, !.tmp_mounts = <<>>]

\* Engine::run: one future is polled. A panic in it unwinds through run();
\* when it completes, having sent its Reply, the bar advances by one and
\* the loop ends with the last future.
DriveWith(s, r) ==
    /\ phase = "running"
    /\ s \in Runnable(pending)
    /\ LET f == Poll(futs[s], r, remote, futs) IN
       IF f.pc = "panicked"
       THEN /\ futs' = [futs EXCEPT ![s] = f]
            /\ phase' = "panicked"
            /\ UNCHANGED <<chans, pending, pos>>
       ELSE IF f.pc = "send"
       THEN LET snd == Send(chans[f.cb], Reply(f.name, f.results))
                g == AfterSend(f, snd.ok)
            IN /\ chans' = [chans EXCEPT ![f.cb] = snd.chan]
               /\ futs' = [futs EXCEPT ![s] = g]
               /\ IF g.pc = "panicked"
                  THEN phase' = "panicked" /\ UNCHANGED <<pending, pos>>
                  ELSE /\ pending' = pending \ {s}
                       /\ pos' = [pos EXCEPT !.position = @ + 1]
                       /\ phase' = IF RunOver(pending') THEN "done" ELSE "running"
       ELSE /\ futs' = [futs EXCEPT ![s] = f]
            /\ UNCHANGED <<phase, chans, pending, pos>>
    /\ remote' = IF futs[s].pc = "create_task" /\ futs'[s].pc = "get_task"
                  THEN CreateTask(remote, s).remote ELSE remote
    /\ UNCHANGED <<runners, handles, made, call, latest>>

Drive(s) ==
    /\ \E r \in ResponsesFor(futs[s]) : DriveWith(s, r)
    /\ UNCHANGED notEngine

Next ==
    \/ \E name \in Names, kind \in BackendKinds : WithBackend(name, kind)
    \/ \E name \in Names, task \in Tasks : Submit(name, task)
    \/ \E h \in 1..Len(handles) : DropHandle(h)
    \/ RunStart
    \/ \E s \in 1..Len(futs) : Drive(s)

Spec == Init /\ [][Next]_vars

----------------------------------------------------------------------------
(* One task on the generic backend                                         *)

MaxPolls == 3

\* Resources.ram_gb: a number of gigabytes, num / den.
Gb(num, den) == [num |-> num, den |-> den]

\* The resources a task is given: none, some without ram_gb, some with.
ResourcesDrawn ==
    {None, Some([ram_gb |-> None]), Some([ram_gb |-> Some(Gb(2, 1))]),
     Some([ram_gb |-> Some(Gb(3, 2000))])}

\* The task with its resources.
WithResources(task, resources) ==
    [executions |-> task.executions, inputs |-> task.inputs,
     volumes |-> task.volumes, resources |-> resources]

\* `(gb * 1000f64) as usize`: the product cut to an integer, a negative
\* one to 0.
MemoryMb(gb) == IF gb.num < 0 THEN 0 ELSE (gb.num * 1000) \div gb.den

\* Variant: an execution goes on with the map the one before it left.
StartSubstitutionsShared(backend, last) ==
    IF last = None THEN UnwrapOr(backend.runtime_attributes, EmptyMap) ELSE last[1]

\* GenericRunner::run: the map an execution starts from: a clone of the
\* runtime attributes, or an empty map, whatever the map of the
\* execution before it (last) ended as.
StartSubstitutions(backend, last) == UnwrapOr(backend.runtime_attributes, EmptyMap)

\* GenericRunner::run: the substitutions of one execution: the map it
\* starts from, then the script, then memory_mb of the task's resources.
\* (cwd is inserted for an execution with a workdir: none has one here.)
RunSubstitutions(start, task, exec) ==
    LET s == MapInsert(start, "script", ToString(exec.args))
    IN IF task.resources # None /\ task.resources[1].ram_gb # None
       THEN MapInsert(s, "memory_mb", ToString(MemoryMb(task.resources[1].ram_gb[1])))
       ELSE s

\* process_command: the defaults, each inserted unless its key is bound.
WithDefaults(backend, s) ==
    LET c == IF backend.default_cpu # None
             THEN OrInsert(s, "cpu", ToString(backend.default_cpu[1])) ELSE s
    IN IF backend.default_ram_mb # None
       THEN OrInsert(c, "memory_mb", ToString(backend.default_ram_mb[1])) ELSE c

\* The substitutions the submit command of execution f.idx is
\* substituted with, last being the map of the execution before.
SubmitSubstitutions(f, last) ==
    WithDefaults(f.backend,
                 RunSubstitutions(StartSubstitutions(f.backend, last), f.task,
                                  f.task.executions[f.idx]))

\* What the submit command of execution f.idx printed, and the job id
\* the pattern captures in it.
SubmitStdout(f) == <<f.sub, f.idx>>
JobId(stdout) == ToString(stdout)

\* process_command: `substitutions.insert("job_id", ..)`: the
\* substitutions of the monitor command.
MonitorSubstitutions(f, s) == MapInsert(s, "job_id", JobId(SubmitStdout(f)))

\* The substitutions map as the last command run saw it: None before the
\* first command.
LastSubstitutions(l) ==
    LET ks == {k \in DOMAIN l : l[k].op \in {"submit", "monitor"}} IN
    IF ks = {} THEN None
    ELSE Some(l[CHOOSE k \in ks : \A j \in ks : j <= k].subs)

\* `self.monitor_frequency.unwrap_or(5)`
DefaultFrequency == 5
SleepSeconds(backend) == UnwrapOr(backend.monitor_frequency, DefaultFrequency)

\* The monitor runs of execution i that the log holds.
MonitorRuns(l, i) == {k \in DOMAIN l : l[k].op = "monitor" /\ l[k].exec = i}

\* Engine::empty().with_backend("a", generic); submit("a", task); run()
\* has reached its loop: one future, not yet polled.
InitGeneric ==
    /\ \E t \in Tasks, resources \in ResourcesDrawn, conf \in Configs :
          LET task == WithResources(t, resources) IN
          /\ futs = <<BackendRun(1, GenericBackend(1, conf), "a", task, 1)>>
          /\ handles = <<[callback |-> 1, name |-> "a", task |-> task]>>
    /\ chans = <<NewChannel>>
    /\ phase = "running"
    /\ runners = <<>>
    /\ pending = {1}
    /\ pos = [len |-> 1, position |-> 0]
    /\ made = 1
    /\ remote = <<>>
    /\ call = [op |-> "run", name |-> ""]
    /\ latest = [n \in Names |-> 0]
    /\ GenericIdle /\ BuilderIdle /\ SubstIdle /\ FetchIdle

\* Engine::run polls the future: the command it is at is run, or the
\* sleep it is in ends, and the log keeps what was run and what it
\* returned. The monitor command exits non-zero by its MaxPolls-th run.
GenericDrive ==
    /\ \E r \in ResponsesFor(futs[1]) :
          /\ futs[1].pc = "monitor" /\ r.ok /\ r.what = "zero" =>
                Cardinality(MonitorRuns(log, futs[1].idx)) < MaxPolls - 1
          /\ DriveWith(1, r)
          /\ log' = IF futs[1].pc = "submit"
                    THEN Append(log, [op |-> "submit", exec |-> futs[1].idx,
                                      ok |-> r.ok, what |-> r.what,
                                      subs |-> SubmitSubstitutions(futs[1],
                                                  LastSubstitutions(log))])
                    ELSE IF futs[1].pc = "monitor"
                    THEN Append(log, [op |-> "monitor", exec |-> futs[1].idx,
                                      ok |-> r.ok, what |-> r.what,
                                      subs |-> MonitorSubstitutions(futs[1],
                                                  LastSubstitutions(log)[1])])
                    ELSE IF futs[1].pc = "sleep"
                    THEN Append(log, [op |-> "sleep", exec |-> futs[1].idx,
                                      ok |-> r.ok, what |-> r.what,
                                      secs |-> SleepSeconds(futs[1].backend)])
                    ELSE log
    /\ UNCHANGED <<builderVars, substVars, fetchVars>>

NextGeneric == GenericDrive

SpecGeneric == InitGeneric /\ [][NextGeneric]_vars

\* The future returned by Engine::run is dropped while the task's future
\* is suspended in the sleep of the monitor loop, its only await: the
\* task's future is dropped with it. No destructor of the future's state
\* runs a command, and the kill template is read nowhere.
GenericCancel ==
    /\ phase = "running"
    /\ futs[1].pc = "sleep"
    /\ futs' = [futs EXCEPT ![1].pc = "dropped"]
    /\ phase' = "dropped"
    /\ UNCHANGED <<runners, chans, handles, pending, pos, made, remote, call, latest>>
    /\ UNCHANGED notEngine

NextCancel == GenericDrive \/ GenericCancel

SpecCancel == InitGeneric /\ [][NextCancel]_vars

----------------------------------------------------------------------------
(* One task on the container backend                                       *)

\* The exit codes an inspected exec can report: none, or a signed integer.
ExitCodes == {None, Some(-2), Some(0), Some(137)}

\* The answers of the container runtime: to inspect_exec any exit code.
DockerResponses(f) ==
    IF f.pc = "inspect_exec"
    THEN {Response(b, "exit_code", c) : b \in BOOLEAN, c \in ExitCodes}
    ELSE ResponsesFor(f)

MaxInputs == 2
MaxVolumes == 2

\* A built Task with n executions, i inputs and v volumes.
StagedTask(n, i, v) ==
    [executions |-> [k \in 1..n |-> Execution(k)],
     inputs |-> [j \in 1..i |-> j],
     volumes |-> [j \in 1..v |-> j]]

StagedTasks ==
    {StagedTask(n, i, v) : n \in 1..MaxExecs, i \in 0..MaxInputs, v \in 0..MaxVolumes}

\* Engine::empty().with_backend("a", docker); submit("a", task); run()
\* has reached its loop: one future, not yet polled.
InitDocker ==
    /\ \E task \in StagedTasks, cleanup \in BOOLEAN :
          /\ futs = <<BackendRun(1, Backend(1, "docker", cleanup), "a", task, 1)>>
          /\ handles = <<[callback |-> 1, name |-> "a", task |-> task]>>
    /\ chans = <<NewChannel>>
    /\ phase = "running"
    /\ runners = <<>>
    /\ pending = {1}
    /\ pos = [len |-> 1, position |-> 0]
    /\ made = 1
    /\ remote = <<>>
    /\ call = [op |-> "run", name |-> ""]
    /\ latest = [n \in Names |-> 0]
    /\ GenericIdle /\ BuilderIdle /\ SubstIdle /\ FetchIdle

\* Engine::run polls the future: the operation of the container runtime
\* it is at is performed, the making of the temporary directories at
\* first, and the log keeps the operation, the execution and the input it
\* belongs to, what it returned, the mounts a container is created with
\* and the temporary directories there are once it has returned.
DockerDrive ==
    /\ \E r \in DockerResponses(futs[1]) :
          /\ DriveWith(1, r)
          /\ log' = Append(log,
                       [op |-> IF futs[1].pc = "init" THEN "tmp_mounts" ELSE futs[1].pc,
                        exec |-> futs[1].idx, inp |-> futs[1].inp,
                        ok |-> r.ok, logs |-> r.logs,
                        mounts |-> IF futs[1].pc = "create" THEN Mounts(futs[1]) ELSE <<>>,
                        dirs |-> {futs'[1].tmp_mounts[j].local_path :
                                     j \in DOMAIN futs'[1].tmp_mounts}])
    /\ UNCHANGED <<builderVars, substVars, fetchVars>>

NextDocker == DockerDrive

SpecDocker == InitDocker /\ [][NextDocker]_vars

----------------------------------------------------------------------------
(* One task on the remote-service backend                                  *)

MaxLogs == 2

\* The polls of the task that the log holds.
GetRuns(l) == {k \in DOMAIN l : l[k].op = "get_task"}

\* The executor logs a service can report: each field present or absent.
ExecutorLogs ==
    {ExecutorLog(c, o, e) :
        c \in {None, Some(3)}, o \in {None, Some(<<"o">>)}, e \in {None, Some(<<"e">>)}}

\* The task logs a service can report: at most MaxLogs executor logs, in
\* no task log, in one, or split over two.
TaskLogs ==
    LET all == UNION {[1..n -> ExecutorLogs] : n \in 0..MaxLogs} IN
    {<<>>} \cup {<<l>> : l \in all}
    \cup UNION {{<<SubSeq(l, 1, k), SubSeq(l, k + 1, Len(l))>> : k \in 1..(Len(l) - 1)} :
                  l \in all}

\* The answers of the service: to GET /tasks/{id} any state with any task
\* logs.
TesResponses(f) ==
    IF f.pc = "get_task"
    THEN {r \in ResponsesFor(f) : r.logs = None}
         \cup {Response(TRUE, st, Some(l)) : st \in Terminal, l \in TaskLogs}
    ELSE ResponsesFor(f)

\* Engine::empty().with_backend("a", tes); submit("a", task); run() has
\* reached its loop: one future, not yet polled.
InitTes ==
    /\ \E task \in Tasks :
          /\ futs = <<BackendRun(1, Backend(1, "tes", FALSE), "a", task, 1)>>
          /\ handles = <<[callback |-> 1, name |-> "a", task |-> task]>>
    /\ chans = <<NewChannel>>
    /\ phase = "running"
    /\ runners = <<>>
    /\ pending = {1}
    /\ pos = [len |-> 1, position |-> 0]
    /\ made = 1
    /\ remote = <<>>
    /\ call = [op |-> "run", name |-> ""]
    /\ latest = [n \in Names |-> 0]
    /\ GenericIdle /\ BuilderIdle /\ SubstIdle /\ FetchIdle

\* Engine::run polls the future: the request it is at is made, or the
\* sleep it is in ends, and the log keeps what was done and what the
\* service answered. The service reports a state that ends the polling,
\* or a body that does not parse, by the MaxPolls-th poll.
TesDrive ==
    /\ \E r \in TesResponses(futs[1]) :
          /\ futs[1].pc = "get_task"
                /\ (~r.ok \/ r.what = "no state" \/ IsExecuting(r.what)) =>
                Cardinality(GetRuns(log)) < MaxPolls - 1
          /\ DriveWith(1, r)
          /\ log' = IF futs[1].pc \in {"create_task", "get_task", "sleep"}
                    THEN Append(log, [op |-> futs[1].pc, ok |-> r.ok,
                                      what |-> r.what, logs |-> r.logs])
                    ELSE log
    /\ UNCHANGED <<builderVars, substVars, fetchVars>>

NextTes == TesDrive

SpecTes == InitTes /\ [][NextTes]_vars

----------------------------------------------------------------------------
(* Task builder                                                            *)

MaxCalls == 3
MaxItems == 2

\* The values a scalar setter is handed.
Values == 1..2

\* Result<T, Error>
Ok(v) == [ok |-> TRUE, val |-> v]
Err(e) == [ok |-> FALSE, val |-> e]

\* builder::Error
Missing(field) == [kind |-> "Missing", field |-> field]
Multiple(field) == [kind |-> "Multiple", field |-> field]

\* Builder::default(): every field None.
BuilderDefault ==
    [name |-> None, description |-> None, inputs |-> None, outputs |-> None,
     resources |-> None, executors |-> None, volumes |-> None]

\* Variant: a second name replaces the first.
BuilderNameOverwrite(b, v) == Ok([b EXCEPT !.name = Some(v)])

\* Builder::name
BuilderName(b, v) ==
    IF b.name # None THEN Err(Multiple("name")) ELSE Ok([b EXCEPT !.name = Some(v)])

\* Builder::description
BuilderDescription(b, v) ==
    IF b.description # None THEN Err(Multiple("description"))
    ELSE Ok([b EXCEPT !.description = Some(v)])

\* Builder::resources
BuilderResources(b, v) ==
    IF b.resources # None THEN Err(Multiple("resources"))
    ELSE Ok([b EXCEPT !.resources = Some(v)])

\* Variant: the sequence passed replaces what the field held.
ExtendReplace(cur, new) == IF Len(new) > 0 THEN Some(new) ELSE cur

\* The match of every extend_* setter: a present NonEmpty is extended; an
\* absent one is made from the first item, if there is one, and extended
\* with the rest.
Extend(cur, new) ==
    IF cur # None THEN Some(cur[1] \o new)
    ELSE IF Len(new) > 0 THEN Some(<<Head(new)>> \o Tail(new))
    ELSE None

\* Builder::extend_inputs, extend_outputs, extend_executors, extend_volumes
ExtendInputs(b, new) == Ok([b EXCEPT !.inputs = Extend(@, new)])
ExtendOutputs(b, new) == Ok([b EXCEPT !.outputs = Extend(@, new)])
ExtendExecutors(b, new) == Ok([b EXCEPT !.executors = Extend(@, new)])
ExtendVolumes(b, new) == Ok([b EXCEPT !.volumes = Extend(@, new)])

\* The Task try_build makes of the fields.
BuiltTask(b) ==
    [name |-> b.name, description |-> b.description, inputs |-> b.inputs,
     outputs |-> b.outputs, resources |-> b.resources,
     executions |-> b.executors[1], volumes |-> b.volumes]

\* Variant: an absent list of executors builds a task of no execution.
TryBuildUnchecked(b) ==
    IF b.executors = None THEN Ok(BuiltTask([b EXCEPT !.executors = Some(<<>>)]))
    ELSE Ok(BuiltTask(b))

\* Builder::try_build
TryBuild(b) ==
    IF b.executors = None THEN Err(Missing("executors")) ELSE Ok(BuiltTask(b))

\* The items passed by the k-th call when it passes n of them: objects
\* of their own.
Items(k, n) == [j \in 1..n |-> <<k, j>>]

\* One call on the Builder: every method takes the Builder by value, so
\* the caller holds one afterwards only if the call returned Ok(builder).
Call(op, arg, res) ==
    /\ builder # None
    /\ Len(calls) < MaxCalls
    /\ calls' = Append(calls, [op |-> op, arg |-> arg])
    /\ outcome' = Some(res)
    /\ builder' = IF res.ok /\ op # "try_build" THEN Some(res.val) ELSE None
    /\ UNCHANGED notBuilder

CallName(v) == Call("name", v, BuilderName(builder[1], v))
CallDescription(v) == Call("description", v, BuilderDescription(builder[1], v))
CallResources(v) == Call("resources", v, BuilderResources(builder[1], v))
CallExtendInputs(new) == Call("inputs", new, ExtendInputs(builder[1], new))
CallExtendOutputs(new) == Call("outputs", new, ExtendOutputs(builder[1], new))
CallExtendExecutors(new) == Call("executors", new, ExtendExecutors(builder[1], new))
CallExtendVolumes(new) == Call("volumes", new, ExtendVolumes(builder[1], new))
CallTryBuild == Call("try_build", <<>>, TryBuild(builder[1]))

\* Task::builder()
InitBuilder ==
    /\ EngineEmpty /\ GenericIdle /\ SubstIdle /\ FetchIdle
    /\ builder = Some(BuilderDefault) /\ outcome = None /\ calls = <<>>

NextBuilder ==
    \/ \E v \in Values : CallName(v)
    \/ \E v \in Values : CallDescription(v)
    \/ \E v \in Values : CallResources(v)
    \/ \E n \in 0..MaxItems : CallExtendInputs(Items(Len(calls) + 1, n))
    \/ \E n \in 0..MaxItems : CallExtendOutputs(Items(Len(calls) + 1, n))
    \/ \E n \in 0..MaxItems : CallExtendExecutors(Items(Len(calls) + 1, n))
    \/ \E n \in 0..MaxItems : CallExtendVolumes(Items(Len(calls) + 1, n))
    \/ CallTryBuild

SpecBuilder == InitBuilder /\ [][NextBuilder]_vars

----------------------------------------------------------------------------
(* Resources builder                                                       *)

\* resources::Builder::default(): every field None.
ResourcesDefault ==
    [cpu_cores |-> None, preemptible |-> None, ram_gb |-> None, disk_gb |-> None,
     zones |-> None]

\* Builder::cpu_cores, preemptible, ram_gb: the field is overwritten.
ResourcesCpuCores(b, v) == [b EXCEPT !.cpu_cores = Some(v)]
ResourcesPreemptible(b, v) == [b EXCEPT !.preemptible = Some(v)]
ResourcesRamGb(b, v) == [b EXCEPT !.ram_gb = Some(v)]

\* Builder::disk_gb: a warning is logged and the builder is returned as it
\* was; the value is not kept.
ResourcesDiskGb(b, v) == b

\* Builder::reset_zones, Builder::zones
ResourcesResetZones(b) == [b EXCEPT !.zones = None]
ResourcesZones(b, new) == [b EXCEPT !.zones = Extend(@, new)]

\* Builder::build: the Resources made of the fields.
ResourcesBuild(b) ==
    [cpu_cores |-> b.cpu_cores, preemptible |-> b.preemptible, ram_gb |-> b.ram_gb,
     disk_gb |-> b.disk_gb, zones |-> b.zones]

\* One setter called on the Builder, which it takes by value and returns.
ResourcesCall(op, arg, b) ==
    /\ builder # None
    /\ Len(calls) < MaxCalls
    /\ calls' = Append(calls, [op |-> op, arg |-> arg])
    /\ builder' = Some(b)
    /\ UNCHANGED outcome
    /\ UNCHANGED notBuilder

CallCpuCores(v) == ResourcesCall("cpu_cores", v, ResourcesCpuCores(builder[1], v))
CallPreemptible(v) == ResourcesCall("preemptible", v, ResourcesPreemptible(builder[1], v))
CallRamGb(v) == ResourcesCall("ram_gb", v, ResourcesRamGb(builder[1], v))
CallDiskGb(v) == ResourcesCall("disk_gb", v, ResourcesDiskGb(builder[1], v))
CallResetZones == ResourcesCall("reset_zones", <<>>, ResourcesResetZones(builder[1]))
CallZones(new) == ResourcesCall("zones", new, ResourcesZones(builder[1], new))

\* build() consumes the Builder.
CallBuild ==
    /\ builder # None
    /\ Len(calls) < MaxCalls + 1
    /\ calls' = Append(calls, [op |-> "build", arg |-> <<>>])
    /\ outcome' = Some(ResourcesBuild(builder[1]))
    /\ builder' = None
    /\ UNCHANGED notBuilder

\* Resources::builder()
InitResources ==
    /\ EngineEmpty /\ GenericIdle /\ SubstIdle /\ FetchIdle
    /\ builder = Some(ResourcesDefault) /\ outcome = None /\ calls = <<>>

NextResources ==
    \/ \E v \in Values : CallCpuCores(v)
    \/ \E v \in BOOLEAN : CallPreemptible(v)
    \/ \E v \in Values : CallRamGb(v)
    \/ \E v \in Values : CallDiskGb(v)
    \/ CallResetZones
    \/ \E n \in 0..MaxItems : CallZones(Items(Len(calls) + 1, n))
    \/ CallBuild

SpecResources == InitResources /\ [][NextResources]_vars

----------------------------------------------------------------------------
(* Service catalog builder                                                 *)

\* catalog::Name: the namespace and the local name.
Logging(name) == <<"logging", name>>
RunnerName(name) == <<"runner", name>>

\* Service::Logger(logger), Service::Runner(runner): id names the object.
ServiceLogger(id) == [kind |-> "Logger", id |-> id]
ServiceRunner(id) == [kind |-> "Runner", id |-> id]

\* builder::Error::ServiceExists
ServiceExists(name) == [kind |-> "ServiceExists", name |-> name]

\* IndexMap<Name, Service>: the entries in insertion order.
ContainsKey(m, name) == \E i \in DOMAIN m : m[i].name = name

\* IndexMap::insert: the value of a key the map holds is replaced where it
\* stands, a new key is appended.
InsertService(m, name, svc) ==
    IF ContainsKey(m, name)
    THEN [i \in DOMAIN m |-> IF m[i].name = name THEN [name |-> name, service |-> svc] ELSE m[i]]
    ELSE Append(m, [name |-> name, service |-> svc])

\* Variant: the runner is inserted whether or not the name is taken.
AddRunnerReplace(b, name, runner) == Ok(InsertService(b, RunnerName(name), ServiceRunner(runner)))

\* Builder::add_logger
AddLogger(b, name, logger) ==
    IF ContainsKey(b, Logging(name)) THEN Err(ServiceExists(Logging(name)))
    ELSE Ok(InsertService(b, Logging(name), ServiceLogger(logger)))

\* Builder::add_runner
AddRunner(b, name, runner) ==
    IF ContainsKey(b, RunnerName(name)) THEN Err(ServiceExists(RunnerName(name)))
    ELSE Ok(InsertService(b, RunnerName(name), ServiceRunner(runner)))

\* Builder::build: the Catalog, a daemon spawned for each service, under
\* the names and in the order of the map.
CatalogBuild(b) == Ok([i \in DOMAIN b |-> [name |-> b[i].name, daemon |-> b[i].service]])

\* Each call passes a logger or a runner of its own.
CallAddLogger(name) ==
    Call("add_logger", <<name, Len(calls) + 1>>, AddLogger(builder[1], name, Len(calls) + 1))
CallAddRunner(name) ==
    Call("add_runner", <<name, Len(calls) + 1>>, AddRunner(builder[1], name, Len(calls) + 1))

\* build() consumes the Builder.
CallCatalogBuild ==
    /\ builder # None
    /\ calls' = Append(calls, [op |-> "build", arg |-> <<>>])
    /\ outcome' = Some(CatalogBuild(builder[1]))
    /\ builder' = None
    /\ UNCHANGED notBuilder

\* Builder::default()
InitCatalog ==
    /\ EngineEmpty /\ GenericIdle /\ SubstIdle /\ FetchIdle
    /\ builder = Some(<<>>) /\ outcome = None /\ calls = <<>>

NextCatalog ==
    \/ \E name \in Names : CallAddLogger(name)
    \/ \E name \in Names : CallAddRunner(name)
    \/ CallCatalogBuild

SpecCatalog == InitCatalog /\ [][NextCatalog]_vars

----------------------------------------------------------------------------
(* Template substitution                                                   *)

MaxPieces == 3
MaxApply == 2

\* A string is the sequence of its characters.
LEFT_PLACEHOLDER == <<"~", "{">>
RIGHT_PLACEHOLDER == <<"}">>

\* format!("{}{}{}", LEFT_PLACEHOLDER, key, RIGHT_PLACEHOLDER)
PlaceholderKey(key) == LEFT_PLACEHOLDER \o key \o RIGHT_PLACEHOLDER

StartsWith(s, p) == Len(p) <= Len(s) /\ SubSeq(s, 1, Len(p)) = p

RECURSIVE ReplaceFirst(_, _, _)
RECURSIVE Replace(_, _, _)

\* Variant: only the first match is replaced.
ReplaceFirst(s, from, to) ==
    IF s = <<>> THEN <<>>
    ELSE IF StartsWith(s, from) THEN to \o SubSeq(s, Len(from) + 1, Len(s))
         ELSE <<Head(s)>> \o ReplaceFirst(Tail(s), from, to)

\* str::replace: every match of the pattern found scanning s from the
\* left, matches not overlapping, is replaced; what a replacement wrote is
\* not scanned.
Replace(s, from, to) ==
    IF s = <<>> THEN <<>>
    ELSE IF StartsWith(s, from)
         THEN to \o Replace(SubSeq(s, Len(from) + 1, Len(s)), from, to)
         ELSE <<Head(s)>> \o Replace(Tail(s), from, to)

\* substitute_placeholders: the bindings are applied one after the other,
\* in the order the map's iterator yields them, each to the result of the
\* one before.
RECURSIVE substitute_placeholders(_, _)
substitute_placeholders(s, substitutions) ==
    IF substitutions = <<>> THEN s
    ELSE substitute_placeholders(
            Replace(s, PlaceholderKey(substitutions[1].key), substitutions[1].value),
            Tail(substitutions))

\* The keys and the values of the maps, and the pieces the templates are
\* written with: placeholders, parts of placeholders and plain text.
Keys == {<<"a">>, <<"b">>}
ValueStrings ==
    {<<>>, <<"x">>, <<"b">>, <<"x", "b">>, <<"{", "a", "}">>, <<"~", "{", "b", "}">>}
Pieces ==
    {<<"~", "{", "a", "}">>, <<"~", "{", "b", "}">>, <<"~", "{", "c", "}">>,
     <<"~">>, <<"~", "{">>, <<"}">>, <<"{", "a", "}">>, <<"x">>}

RECURSIVE Flatten(_)
Flatten(ps) == IF ps = <<>> THEN <<>> ELSE Head(ps) \o Flatten(Tail(ps))

Templates == {Flatten(ps) : ps \in UNION {[1..n -> Pieces] : n \in 0..MaxPieces}}

\* A HashMap<String, String> as its iterator yields it: distinct keys, in
\* an order that is the map's own.
Bindings ==
    {<<>>}
    \cup {<<[key |-> k, value |-> v]>> : k \in Keys, v \in ValueStrings}
    \cup UNION {{<<[key |-> k, value |-> v], [key |-> l, value |-> w]>> :
                    l \in Keys \ {k}, v \in ValueStrings, w \in ValueStrings} :
                 k \in Keys}

InitSubst ==
    /\ EngineEmpty /\ GenericIdle /\ BuilderIdle /\ FetchIdle
    /\ template \in Templates
    /\ bindings \in Bindings
    /\ result = <<>>

\* A call of substitute_placeholders with the map: on the template, then
\* on what the call before returned.
Substitute ==
    /\ Len(result) < MaxApply
    /\ LET s == IF result = <<>> THEN template ELSE result[Len(result)]
       IN result' = Append(result, substitute_placeholders(s, bindings))
    /\ UNCHANGED <<template, bindings>>
    /\ UNCHANGED notSubst

NextSubst == Substitute

SpecSubst == InitSubst /\ [][NextSubst]_vars

----------------------------------------------------------------------------
(* Input::fetch                                                            *)

MaxLiteral == 2

\* A string is the sequence of its characters' code points: one that
\* takes one byte in UTF-8, one that takes two, one that takes three.
Chars == {65, 233, 8364}
Strings == UNION {[1..n -> Chars] : n \in 0..MaxLiteral}

\* The UTF-8 encoding of a code point below 2^16.
Utf8(c) ==
    IF c < 128 THEN <<c>>
    ELSE IF c < 2048 THEN <<192 + (c \div 64), 128 + (c % 64)>>
    ELSE <<224 + (c \div 4096), 128 + ((c \div 64) % 64), 128 + (c % 64)>>

\* str::as_bytes: the UTF-8 encoding of the string.
RECURSIVE AsBytes(_)
AsBytes(s) == IF s = <<>> THEN <<>> ELSE Utf8(Head(s)) \o AsBytes(Tail(s))

\* Contents::Literal, Contents::URL
Literal(s) == [kind |-> "Literal", content |-> s]
URL(scheme, host, path) == [kind |-> "URL", scheme |-> scheme, host |-> host, path |-> path]

Schemes == {"file", "http", "https", "s3", "ftp"}
Paths == {"/p", "/q"}
Contents == {Literal(s) : s \in Strings}
            \cup {URL(sc, h, p) : sc \in Schemes, h \in {"", "host"}, p \in Paths}

\* A file of the file system: it is missing, it opens but cannot be read
\* to its end, or it holds bytes.
FileStates == {[state |-> "missing"], [state |-> "unreadable"]}
              \cup {[state |-> "present", bytes |-> b] : b \in {<<>>, <<0, 255>>}}
FileSystems == [Paths -> FileStates]

\* Url::to_file_path: the path of a file URL that names no host.
ToFilePath(url) == IF url.host = "" THEN Ok(url.path) ELSE Err("Invalid file path")

\* What a call can end in beside a Result: a panic.
Panicked(msg) == [panic |-> msg]

\* Input::fetch
Fetch(contents, fs) ==
    IF contents.kind = "Literal" THEN Ok(AsBytes(contents.content))
    ELSE CASE contents.scheme = "file" ->
                LET path == ToFilePath(contents) IN
                IF ~path.ok THEN path
                ELSE IF fs[path.val].state = "missing" THEN Err("io")
                ELSE IF fs[path.val].state = "unreadable" THEN Err("io")
                ELSE Ok(fs[path.val].bytes)
           [] contents.scheme \in {"http", "https"} ->
                Panicked("HTTP(S) URL support not implemented")
           [] contents.scheme = "s3" -> Panicked("S3 URL support not implemented")
           [] OTHER -> Err("Unsupported URL scheme")

\* An Input with any contents, over any file system; fetch not yet called.
InitFetch ==
    /\ input \in Contents
    /\ files \in FileSystems
    /\ fetched = None
    /\ EngineEmpty /\ GenericIdle /\ BuilderIdle /\ SubstIdle

\* input.fetch().await
CallFetch ==
    /\ fetched = None
    /\ fetched' = Some(Fetch(input, files))
    /\ UNCHANGED <<input, files>>
    /\ UNCHANGED notFetch

NextFetch == CallFetch

SpecFetch == InitFetch /\ [][NextFetch]_vars

----------------------------------------------------------------------------
(* Properties                                                              *)

Subs == DOMAIN futs
Kind(s) == futs[s].backend.kind
Chan(s) == chans[futs[s].cb]

\* The pending futures of the runner registered under name n.
TasksOf(rs, n) == UNION {rs[i].runner.tasks : i \in {j \in 1..Len(rs) : rs[j].name = n}}
Registered(rs, n) == \E i \in 1..Len(rs) : rs[i].name = n

\* C1: once run() has returned, every accepted submission's future has
\* sent exactly one Reply on its channel.
C1_OneReplyPerSubmission ==
    phase = "done" => \A s \in Subs : futs[s].sent = 1

\* A task completed normally: its future completed and, on the remote
\* service, the task ended Complete.
CompletedNormally(s) ==
    /\ futs[s].pc = "done"
    /\ Kind(s) = "tes" => futs[s].cur = Some("Complete")

\* C2: the Reply of a task that completed normally has one result per
\* execution of the task, the i-th being the result of the i-th execution,
\* for every backend.
C2_ResultPerExecution ==
    \A s \in Subs :
        CompletedNormally(s) =>
            /\ Len(futs[s].results) = Len(futs[s].task.executions)
            /\ \A i \in 1..Len(futs[s].results) :
                  futs[s].results[i] =
                      ExecutionResult(futs[s].task.executions[i].exit, s, i)

\* C3: in the container and the generic backends no operation of
\* execution i + 1 is performed before execution i has produced its
\* result, and the results are those of the executions in declaration
\* order.
C3_Sequential ==
    \A s \in Subs :
        Kind(s) \in {"docker", "generic"} =>
            /\ futs[s].touched <= Len(futs[s].results) + 1
            /\ \A i \in 1..Len(futs[s].results) : futs[s].results[i].stdout = <<s, i>>

C3_Witness ==
    \E s, u \in Subs :
        /\ Kind(s) = "docker" /\ Kind(u) = "generic"
        /\ futs[s].touched = 2 /\ Len(futs[s].results) = 1
        /\ futs[u].touched = 2 /\ Len(futs[u].results) = 1

\* A step of Engine::submit: it adds a future or panics while building.
SubmitReturned == Len(futs') = Len(futs) + 1
SubmitPanicked == phase = "building" /\ phase' = "panicked"

\* C4: submit under a registered name returns a Handle and adds exactly
\* one pending future, to the runner of that name; submit under a name
\* that is not registered panics and adds no pending future anywhere.
C4_Submit ==
    [][/\ SubmitReturned =>
            /\ Registered(runners, call'.name)
            /\ Len(handles') = Len(handles) + 1
            /\ Len(futs') \notin Drained(runners)
            /\ TasksOf(runners', call'.name) = TasksOf(runners, call'.name) \cup {Len(futs')}
            /\ \A n \in Names \ {call'.name} : TasksOf(runners', n) = TasksOf(runners, n)
            /\ Len(runners') = Len(runners)
       /\ SubmitPanicked =>
            /\ ~Registered(runners, call'.name)
            /\ runners' = runners /\ futs' = futs /\ handles' = handles
       /\ (SubmitReturned \/ SubmitPanicked) /\ Registered(runners, call'.name) =>
            SubmitReturned /\ phase' = "building"
      ]_vars

C4_Witness ==
    /\ phase = "panicked" /\ call.op = "submit"
    /\ Len(runners) = 1 /\ Len(futs) = 1
    /\ TasksOf(runners, futs[1].name) = {1}

\* C5: run() returns only after every pending future has completed, and
\* the final position of the progress bar is the number of submitted tasks.
C5_FinalPosition ==
    phase = "done" => pending = {} /\ pos.position = Len(handles)

\* C6: a receiver dropped before the Reply is sent cancels nothing: the
\* send is attempted once and its failure ignored, the future completes
\* with every execution performed, and run() does not panic on it.
C6_DroppedReceiver ==
    /\ [](\A s \in Subs :
            Chan(s).rx = "dropped" /\ futs[s].sent > 0 =>
                /\ futs[s].pc = "done" /\ futs[s].sent = 1
                /\ s \notin pending
                /\ Kind(s) \in {"docker", "generic"} =>
                      Len(futs[s].results) = Len(futs[s].task.executions))
    /\ [][\A s \in Subs :
            Chan(s).rx = "dropped" /\ futs[s].sent = 0 /\ futs'[s].sent > 0 =>
                /\ futs'[s].pc = "done" /\ phase' # "panicked"
                /\ chans'[futs[s].cb].value = None]_vars
    /\ [][\A s \in Subs :
            Chan(s).rx = "open" /\ chans'[futs[s].cb].rx = "dropped" =>
                futs'[s] = futs[s] /\ pending' = pending /\ phase' = phase]_vars

C6_Witness ==
    /\ phase = "done"
    /\ \E s \in Subs :
          /\ Chan(s).rx = "dropped" /\ futs[s].pc = "done"
          /\ Len(futs[s].results) = 2

\* C7: every submission has a channel of its own, and the Reply a Handle
\* holds is the one produced by running its task on the backend registered
\* under its name: it is never the Reply of another submission.
C7_OwnReply ==
    /\ \A h, k \in DOMAIN handles : h # k => handles[h].callback # handles[k].callback
    /\ \A h \in DOMAIN handles :
          LET ch == chans[handles[h].callback] IN
          /\ futs[h].cb = handles[h].callback
          /\ futs[h].task = handles[h].task
          /\ ch.value # None =>
                /\ Kind(h) \in {"docker", "tes"} => ch.value[1].backend = handles[h].name
                /\ ch.value[1].executions = futs[h].results
                /\ \A i \in 1..Len(ch.value[1].executions) :
                      ch.value[1].executions[i].stdout[1] = h

C7_Witness ==
    /\ Len(handles) = 2
    /\ chans[handles[1].callback].value # None
    /\ chans[handles[2].callback].value # None
    /\ handles[1].name # handles[2].name
    /\ Kind(1) = "tes" /\ Kind(2) = "tes"
    /\ futs[1].task_id = 2

\* C8: submit performs no operation of the task on any backend: until
\* run() drives the futures nothing has been created, posted or run.
C8_NoIoBeforeRun ==
    phase = "building" =>
        /\ remote = <<>>
        /\ \A s \in Subs :
              /\ ~futs[s].started
              /\ futs[s].pc \in {"init", "dropped"}
              /\ futs[s].results = <<>> /\ futs[s].task_id = 0

C8_Witness ==
    /\ phase = "building"
    /\ \E s, u \in Subs : Kind(s) = "tes" /\ Kind(u) = "generic"
                          /\ futs[s].pc = "init" /\ futs[u].pc = "init"

\* C9: run() drives the pending futures concurrently: whatever the other
\* futures are suspended in, every pending future can be polled next, so a
\* task that never reaches a terminal state holds up no other task.
C9_Concurrent ==
    phase = "running" => \A s \in pending : ENABLED Drive(s)

C9_Witness ==
    /\ phase = "running"
    /\ \E s, u \in Subs :
          /\ s < u
          /\ s \in pending /\ Kind(s) = "tes" /\ futs[s].pc = "sleep"
          /\ futs[u].pc = "done" /\ Chan(u).value # None

\* C10: registering under a registered name overwrites: the registry
\* holds one runner per distinct name ever registered, that of the backend
\* most recently registered under the name, and every future pending in
\* it was made by that backend.
C10_Overwrite ==
    phase = "building" =>
        /\ \A i, j \in 1..Len(runners) : i # j => runners[i].name # runners[j].name
        /\ \A n \in Names : latest[n] # 0 <=> Registered(runners, n)
        /\ \A i \in 1..Len(runners) :
              /\ runners[i].runner.name = runners[i].name
              /\ runners[i].runner.backend.id = latest[runners[i].name]
        /\ \A h \in DOMAIN handles :
              futs[h].pc # "dropped" => futs[h].backend.id = latest[handles[h].name]

C10_Witness ==
    /\ phase = "building"
    /\ made = 2 /\ Len(runners) = 1
    /\ \E h \in DOMAIN handles : futs[h].backend.id = 2

\* C20: the future of the remote-service backend polls on while the
\* state reported is an executing one, and on the first poll that reports
\* Complete, ExecutorError, SystemError or Canceled it sends a Reply and
\* completes, whatever task object reports the state.
C20_TerminalReply ==
    [][\A s \in Subs :
          Kind(s) = "tes" /\ futs[s].pc = "get_task" /\ futs'[s] # futs[s] =>
              /\ futs'[s].cur = None => futs'[s].pc \in {"get_task", "sleep", "panicked"}
              /\ futs'[s].cur # None =>
                    /\ futs'[s].cur[1] \in Terminal
                    /\ futs'[s].sent = 1 /\ futs'[s].pc = "done"]_vars

\* The future of submission s has failed: one of its operations did.
Failed(s) == futs[s].pc = "panicked"

\* C38: when an operation fails in the future of one task, the other
\* futures that run() drives are not affected: run() does not end before
\* each of them has completed and sent its Reply.
C38_FailureIsolated ==
    phase \notin {"building", "running"} =>
        \A s \in Subs :
            Failed(s) =>
                \A u \in Subs \ {s} :
                    futs[u].pc # "dropped" => futs[u].pc = "done" /\ futs[u].sent = 1

\* C39: the futures submitted to a name that with_backend registers again
\* are dropped: none of their operations is ever performed, run() does not
\* count them in the length of its bar and does not poll them, and their
\* channels are closed with no Reply in them.
C39_ReplacedAreDropped ==
    /\ phase = "building" /\ call.op # "run" =>
          \A s \in Subs :
              futs[s].backend.id # latest[futs[s].name] => futs[s].pc = "dropped"
    /\ \A s \in Subs :
          futs[s].pc = "dropped" =>
              /\ ~futs[s].started /\ futs[s].touched = 0 /\ futs[s].idx = 0
              /\ futs[s].results = <<>> /\ futs[s].sent = 0
              /\ s \notin pending
              /\ Chan(s).tx = "dropped" /\ Chan(s).value = None
    /\ call.op = "run" =>
          pos.len = Cardinality({s \in Subs : futs[s].pc # "dropped"})

C39_Witness ==
    /\ phase = "done" /\ pos.len = 1 /\ pos.position = 1
    /\ \E s, u \in Subs :
          /\ futs[s].pc = "dropped" /\ Chan(s).tx = "dropped" /\ Chan(s).rx = "open"
          /\ futs[s].name = futs[u].name
          /\ futs[u].pc = "done" /\ futs[u].sent = 1

----------------------------------------------------------------------------
(* Properties of Input::fetch                                              *)

\* The value returned is a Result: the call did not panic.
Returned(v) == "ok" \in DOMAIN v

\* The bytes are the UTF-8 encoding of the string: decoded from the
\* left, lead byte by lead byte, they give its code points back.
RECURSIVE Decodes(_, _)
Decodes(bytes, s) ==
    IF s = <<>> THEN bytes = <<>>
    ELSE LET c == Head(s)
             n == IF c < 128 THEN 1 ELSE IF c < 2048 THEN 2 ELSE 3
         IN /\ Len(bytes) >= n
            /\ \A k \in 1..n : bytes[k] \in 0..255
            /\ c = CASE n = 1 -> bytes[1]
                      [] n = 2 -> (bytes[1] - 192) * 64 + (bytes[2] - 128)
                      [] n = 3 -> (bytes[1] - 224) * 4096 + (bytes[2] - 128) * 64
                                  + (bytes[3] - 128)
            /\ n > 1 => \A k \in 2..n : bytes[k] \in 128..191
            /\ Decodes(SubSeq(bytes, n + 1, Len(bytes)), Tail(s))

\* C24: fetch returns the UTF-8 bytes of a Literal; for a file URL the
\* whole contents of the file, or an error value when the file cannot be
\* read; for a URL of any other scheme, http, https and s3 included, the
\* error value for an unsupported scheme: it never panics.
C24_Fetch ==
    fetched # None =>
        LET v == fetched[1] IN
        /\ Returned(v)
        /\ input.kind = "Literal" => v.ok /\ Decodes(v.val, input.content)
        /\ input.kind = "URL" /\ input.scheme = "file" /\ input.host = "" =>
              IF files[input.path].state = "present"
              THEN v = Ok(files[input.path].bytes)
              ELSE ~v.ok
        /\ input.kind = "URL" /\ input.scheme # "file" =>
              v = Err("Unsupported URL scheme")

----------------------------------------------------------------------------
(* Properties of the container backend                                     *)

\* The steps of an execution, and those of its cleanup.
ExecutionSteps ==
    {"create", "start", "insert_input", "create_exec", "start_exec", "inspect_exec"}
CleanupSteps == {"kill_container", "remove_container"}

\* C23: when a step of execution k fails, no operation is performed
\* after it and, k being greater than 1, the future sends a Reply that
\* holds the results of the executions 1..k-1.
C23_FailureKeepsPrefix ==
    \A m \in DOMAIN log :
        log[m].op \in ExecutionSteps /\ ~log[m].ok =>
            /\ m = Len(log)
            /\ log[m].exec > 1 =>
                  /\ futs[1].sent = 1
                  /\ chans[1].value # None
                  /\ chans[1].value[1].executions =
                        SubSeq(futs[1].results, 1, log[m].exec - 1)

\* C26: with cleanup enabled, when kill or remove fails for an execution
\* the future does not fail: the result of the execution is kept and the
\* future goes on to the next execution or to the Reply.
C26_CleanupNotFatal ==
    \A m \in DOMAIN log :
        log[m].op \in CleanupSteps /\ ~log[m].ok =>
            /\ futs[1].pc # "panicked"
            /\ m = Len(log) =>
                  \/ futs[1].pc = "remove_container" /\ futs[1].cur # None
                  \/ Len(futs[1].results) = log[m].exec

\* The inspection of the exec of execution i that the log holds.
Inspected(l, i) == {m \in DOMAIN l : l[m].op = "inspect_exec" /\ l[m].exec = i /\ l[m].ok}

\* C27: the status of an execution's result is the exit code its
\* inspection reported, as a signed integer, and -1 when it reported none.
C27_SignedStatus ==
    \A i \in 1..Len(futs[1].results) :
        \A m \in Inspected(log, i) :
            futs[1].results[i].status =
                IF log[m].logs = None THEN -1 ELSE log[m].logs[1]

\* The operations of execution i, in the order the claim gives them; the
\* operations of a task, execution after execution.
StepsOf(task, cleanup, i) ==
    <<[op |-> "create", exec |-> i, inp |-> 0], [op |-> "start", exec |-> i, inp |-> 0]>>
    \o [j \in DOMAIN task.inputs |-> [op |-> "insert_input", exec |-> i, inp |-> j]]
    \o <<[op |-> "create_exec", exec |-> i, inp |-> 0],
         [op |-> "start_exec", exec |-> i, inp |-> 0],
         [op |-> "inspect_exec", exec |-> i, inp |-> 0]>>
    \o (IF cleanup
        THEN <<[op |-> "kill_container", exec |-> i, inp |-> 0],
               [op |-> "remove_container", exec |-> i, inp |-> 0]>>
        ELSE <<>>)

RECURSIVE StepsUpTo(_, _, _)
StepsUpTo(task, cleanup, n) ==
    IF n = 0 THEN <<>>
    ELSE StepsUpTo(task, cleanup, n - 1) \o StepsOf(task, cleanup, n)

\* The operations on containers that the log holds, in order.
ContainerSteps(l) ==
    [k \in 1..(Len(l) - 1) |->
        [op |-> l[k + 1].op, exec |-> l[k + 1].exec, inp |-> l[k + 1].inp]]

\* C33: for each execution, in order: create, start, the upload of every
\* input of the task in input order, the exec, its inspection and, with
\* cleanup, kill and remove; the operations performed are always the
\* first ones of that sequence, and all of it when the Reply is sent.
C33_StepOrder ==
    LET all == StepsUpTo(futs[1].task, futs[1].backend.cleanup, Len(futs[1].task.executions))
        steps == ContainerSteps(log)
    IN /\ Len(steps) <= Len(all)
       /\ steps = SubSeq(all, 1, Len(steps))
       /\ futs[1].sent = 1 => steps = all

C33_Witness ==
    /\ futs[1].sent = 1 /\ futs[1].backend.cleanup
    /\ Len(futs[1].task.executions) = 2 /\ Len(futs[1].task.inputs) = 2
    /\ Cardinality({k \in DOMAIN log : log[k].op = "insert_input"}) = 4

ContainersLeft(l) ==
    {l[k].exec : k \in {m \in DOMAIN l : l[m].op = "create" /\ l[m].ok}}
    \ {l[k].exec : k \in {m \in DOMAIN l : l[m].op = "remove_container" /\ l[m].ok}}

\* C35: with cleanup, when the container of an execution is created and
\* when the Reply is sent, the container of every execution before has
\* been killed and then removed, and none is left when the Reply is sent;
\* without cleanup no container is ever killed or removed.
C35_Cleanup ==
    LET Cleaned(i, before) ==
            \E k, m \in 1..before :
                /\ k < m
                /\ log[k].op = "kill_container" /\ log[k].exec = i /\ log[k].ok
                /\ log[m].op = "remove_container" /\ log[m].exec = i /\ log[m].ok
    IN /\ futs[1].backend.cleanup =>
             /\ \A c \in DOMAIN log :
                   log[c].op = "create" => \A i \in 1..(log[c].exec - 1) : Cleaned(i, c - 1)
             /\ futs[1].sent = 1 =>
                   /\ \A i \in DOMAIN futs[1].task.executions : Cleaned(i, Len(log))
                   /\ ContainersLeft(log) = {}
       /\ ~futs[1].backend.cleanup =>
             \A k \in DOMAIN log : log[k].op \notin CleanupSteps

C35_Witness ==
    /\ futs[1].sent = 1 /\ futs[1].backend.cleanup
    /\ Len(futs[1].task.executions) = 2
    /\ Cardinality({k \in DOMAIN log : log[k].op = "remove_container" /\ log[k].ok}) = 2

----------------------------------------------------------------------------
(* Properties of the remote-service backend                                *)

\* The number of executor logs in the task logs before the a-th.
RECURSIVE LogsBefore(_, _)
LogsBefore(tl, a) == IF a = 1 THEN 0 ELSE LogsBefore(tl, a - 1) + Len(tl[a - 1])

\* The last poll the log holds and the Reply the future sent.
LastPoll == log[Len(log)]
Sent == chans[1].value[1].executions

C29_SleepBetweenPolls ==
    \A k \in GetRuns(log) : k < Len(log) => log[k + 1].op = "sleep"

----------------------------------------------------------------------------
(* Properties of the generic backend                                       *)

SubmitRuns(l, i) == {k \in DOMAIN l : l[k].op = "submit" /\ l[k].exec = i}

\* The monitor run logged at k exited with a code: zero, or not.
ExitedZero(l, k) == l[k].ok /\ l[k].what = "zero"
ExitedNonZero(l, k) == l[k].ok /\ l[k].what = "nonzero"

\* The submit run logged at k returned and its output held the job id.
JobIdBound(l, k) == l[k].ok /\ l[k].what # "no match"

\* The commands of execution i that the log holds after position m.
RunsAfter(l, i, m) == {k \in DOMAIN l : k > m /\ l[k].exec = i /\ l[k].op # "sleep"}

\* C22: when the future is dropped while the job of an execution is
\* monitored and the backend has a kill template, the kill command is
\* the last command run: it follows the last monitor run of the execution.
C22_KillOnCancel ==
    futs[1].pc = "dropped" /\ futs[1].backend.kill # None =>
        \E m \in MonitorRuns(log, futs[1].idx) :
            \E k \in RunsAfter(log, futs[1].idx, m) : log[k].op = "kill"

\* C25: when the job id pattern matches nothing in what the submit
\* command printed, the monitor command is never run for that execution
\* and the failure is an error outcome: neither the future nor run()
\* panics.
C25_NoMatchIsError ==
    \A i \in 1..Len(futs[1].task.executions) :
        \A k \in SubmitRuns(log, i) :
            log[k].ok /\ log[k].what = "no match" =>
                /\ MonitorRuns(log, i) = {}
                /\ futs[1].pc # "panicked" /\ phase # "panicked"

\* What a map binds a key to: None when it does not bind it.
BoundTo(m, k) == IF k \in DOMAIN m THEN Some(m[k]) ELSE None

\* The first of the options that is present.
FirstOf(opts) ==
    IF \E n \in DOMAIN opts : opts[n] # None
    THEN opts[CHOOSE n \in DOMAIN opts :
                 opts[n] # None /\ \A j \in 1..(n - 1) : opts[j] = None]
    ELSE None

\* C30: in the substitutions of an execution memory_mb is the value of
\* the runtime attributes if they have one, else floor(ram_gb * 1000) of
\* the task's resources if they have ram_gb, else default_ram; cpu is the
\* value of the runtime attributes if they have one, else default_cpu.
C30_Precedence ==
    \A k \in DOMAIN log :
        log[k].op = "submit" =>
            LET b == futs[1].backend
                attrs == IF b.runtime_attributes = None THEN <<>>
                         ELSE b.runtime_attributes[1]
                res == futs[1].task.resources
                ram == IF res # None /\ res[1].ram_gb # None
                       THEN Some(ToString((res[1].ram_gb[1].num * 1000)
                                          \div res[1].ram_gb[1].den))
                       ELSE None
                dram == IF b.default_ram_mb = None THEN None
                        ELSE Some(ToString(b.default_ram_mb[1]))
                dcpu == IF b.default_cpu = None THEN None
                        ELSE Some(ToString(b.default_cpu[1]))
            IN /\ BoundTo(log[k].subs, "memory_mb")
                     = FirstOf(<<BoundTo(attrs, "memory_mb"), ram, dram>>)
               /\ BoundTo(log[k].subs, "cpu") = FirstOf(<<BoundTo(attrs, "cpu"), dcpu>>)

C40_OptionalTemplates ==
    futs[1].backend.job_id_regex = None \/ futs[1].backend.monitor = None =>
        /\ futs[1].pc # "panicked"
        /\ futs[1].pc = "done" =>
              /\ Len(futs[1].results) = Len(futs[1].task.executions)
              /\ futs[1].sent = 1

\* C28: every run of the monitor command, the first one after the submit
\* command included, directly follows a sleep of monitor_frequency
\* seconds, 5 when none is configured: there are as many sleeps as
\* monitor runs.
C28_SleepBeforeMonitor ==
    \A m \in DOMAIN log :
        log[m].op = "monitor" =>
            /\ m > 1 /\ log[m - 1].op = "sleep" /\ log[m - 1].exec = log[m].exec
            /\ log[m - 1].secs =
                  IF futs[1].backend.monitor_frequency = None THEN 5
                  ELSE futs[1].backend.monitor_frequency[1]

\* C17: when the monitor command of an execution has exited 0 on its
\* first N - 1 runs and non-zero on its N-th, there is no further monitor
\* run of that execution, the execution has produced its result and, the
\* execution being the task's last, the future has sent the Reply and
\* completed.
C17_MonitorTermination ==
    \A i \in 1..Len(futs[1].task.executions) :
        \A m \in MonitorRuns(log, i) :
            /\ ExitedNonZero(log, m)
            /\ \A k \in MonitorRuns(log, i) : k < m => ExitedZero(log, k)
            => /\ \A k \in MonitorRuns(log, i) : k <= m
               /\ Len(futs[1].results) >= i
               /\ i = Len(futs[1].task.executions) =>
                     futs[1].sent = 1 /\ futs[1].pc = "done"

\* C18: for each execution the submit command is run once; the monitor
\* command is run only after the submit command returned and the job id
\* was captured; after a monitor run that exits 0 the execution has no
\* result and the next command is the monitor command of the same
\* execution, a sleep later; after the first monitor run that exits
\* non-zero no command of that execution is run.
C18_Lifecycle ==
    \A i \in 1..Len(futs[1].task.executions) :
        /\ Cardinality(SubmitRuns(log, i)) <= 1
        /\ \A m \in MonitorRuns(log, i) :
              /\ \E k \in SubmitRuns(log, i) : k < m /\ JobIdBound(log, k)
              /\ ExitedZero(log, m) =>
                    /\ m < Len(log) => log[m + 1].op = "sleep"
                    /\ m + 1 < Len(log) =>
                          log[m + 2].op = "monitor" /\ log[m + 2].exec = i
                    /\ (\A k \in MonitorRuns(log, i) : k <= m) =>
                          /\ Len(futs[1].results) < i
                          /\ futs[1].idx = i /\ futs[1].pc \in {"sleep", "monitor"}
              /\ ExitedNonZero(log, m) =>
                    \A k \in DOMAIN log : k > m => log[k].exec # i

C18_Witness ==
    /\ futs[1].pc = "done"
    /\ Cardinality(MonitorRuns(log, 1)) = 3
    /\ Cardinality(MonitorRuns(log, 2)) = 1

\* C19: the ExecutionResult of an execution carries the exit code, the
\* standard output and the standard error of its submit command, whatever
\* the monitor runs returned.
C19_SubmitResult ==
    \A i \in 1..Len(futs[1].results) :
        /\ Cardinality(SubmitRuns(log, i)) = 1
        /\ futs[1].results[i].status = futs[1].task.executions[i].exit
        /\ futs[1].results[i].stdout = <<1, i>>
        /\ futs[1].results[i].stderr = <<1, i, "stderr">>

C19_Witness ==
    /\ futs[1].pc = "done" /\ chans[1].value # None
    /\ Len(chans[1].value[1].executions) = 2
    /\ chans[1].value[1].executions[1].status = 0
    /\ chans[1].value[1].executions[2].status = 1
    /\ Cardinality(MonitorRuns(log, 1)) = 1
    /\ Cardinality(MonitorRuns(log, 2)) = 2

----------------------------------------------------------------------------
(* Properties of the task builder                                          *)

Scalars == {"name", "description", "resources"}
Plurals == {"inputs", "outputs", "executors", "volumes"}

LastCall == calls[Len(calls)]

\* The calls of op made so far, by their place in calls.
CallsOf(op) == {k \in DOMAIN calls : calls[k].op = op}

\* Everything passed to the plural setter op so far, in call order.
RECURSIVE PassedTo(_, _)
PassedTo(cs, op) ==
    IF cs = <<>> THEN <<>>
    ELSE (IF Head(cs).op = op THEN Head(cs).arg ELSE <<>>) \o PassedTo(Tail(cs), op)

TryBuildReturned == calls # <<>> /\ LastCall.op = "try_build"

\* C11 (as the code has it): try_build fails, with Missing naming the
\* field "executors", exactly when no execution was ever added, a setter
\* called with empty sequences only having added none; otherwise it returns
\* a Task of at least one execution, those added, in order.
C11_TryBuild ==
    TryBuildReturned =>
        LET added == PassedTo(calls, "executors") IN
        IF added = <<>>
        THEN outcome[1] = Err(Missing("executors"))
        ELSE /\ outcome[1].ok
             /\ Len(outcome[1].val.executions) >= 1
             /\ outcome[1].val.executions = added

\* C11 as stated: the error of try_build names the field "executions".
C11_Original ==
    TryBuildReturned =>
        LET added == PassedTo(calls, "executors") IN
        IF added = <<>>
        THEN outcome[1] = Err(Missing("executions"))
        ELSE outcome[1].ok /\ Len(outcome[1].val.executions) >= 1

C11_Witness ==
    /\ TryBuildReturned
    /\ ~outcome[1].ok
    /\ CallsOf("executors") # {}

\* C12: name, description or resources called on a field that is set
\* fails with Multiple naming the field, and called on an unset field
\* succeeds and sets it; so a scalar field is assigned at most once and
\* holds the value of its first call.
C12_ScalarOnce ==
    \A F \in Scalars :
        /\ builder # None =>
              /\ Cardinality(CallsOf(F)) <= 1
              /\ builder[1][F] =
                    IF CallsOf(F) = {} THEN None
                    ELSE Some(calls[CHOOSE k \in CallsOf(F) : TRUE].arg)
        /\ calls # <<>> /\ LastCall.op = F =>
              IF \E k \in CallsOf(F) : k < Len(calls)
              THEN outcome[1] = Err(Multiple(F)) /\ builder = None
              ELSE outcome[1].ok /\ builder # None

C12_Witness ==
    /\ outcome = Some(Err(Multiple("name")))
    /\ Len(calls) = 3
    /\ calls[1].op = "name" /\ calls[3].op = "name" /\ calls[1].arg # calls[3].arg

\* C13: the plural setters never fail, and each plural field holds the
\* concatenation, in call order, of the sequences passed to its setter:
\* absent when that is empty, so never present and empty.
C13_Additive ==
    \A P \in Plurals :
        /\ builder # None =>
              /\ builder[1][P] =
                    IF PassedTo(calls, P) = <<>> THEN None ELSE Some(PassedTo(calls, P))
              /\ builder[1][P] # Some(<<>>)
        /\ calls # <<>> /\ LastCall.op = P => outcome[1].ok /\ builder # None

C13_Witness ==
    /\ builder # None /\ Len(calls) = 3
    /\ \A k \in 1..3 : calls[k].op = "volumes"
    /\ Len(calls[1].arg) = 1 /\ Len(calls[2].arg) = 0 /\ Len(calls[3].arg) = 2
    /\ Len(builder[1].volumes[1]) = 3

----------------------------------------------------------------------------
(* Properties of the Resources builder                                     *)

ScalarFields == {"cpu_cores", "preemptible", "ram_gb", "disk_gb"}

\* What the last call of setter op passed, None when there was none.
LastSet(cs, op) ==
    LET ks == {k \in DOMAIN cs : cs[k].op = op} IN
    IF ks = {} THEN None
    ELSE Some(cs[CHOOSE k \in ks : \A m \in ks : m <= k].arg)

\* C36: build() returns, for each of cpu_cores, preemptible, ram_gb and
\* disk_gb, the value the last call of its setter passed, and None when
\* the setter was never called.
C36_LastSetterWins ==
    calls # <<>> /\ calls[Len(calls)].op = "build" =>
        \A field \in ScalarFields : outcome[1][field] = LastSet(calls, field)

----------------------------------------------------------------------------
(* Properties of the service catalog builder                               *)

\* The name a call of add_logger or add_runner registers.
NameOf(c) == IF c.op = "add_logger" THEN Logging(c.arg[1]) ELSE RunnerName(c.arg[1])

\* The calls of add_logger and add_runner before the k-th call that
\* passed its name.
Earlier(cs, k) ==
    {m \in 1..(k - 1) : cs[m].op # "build" /\ NameOf(cs[m]) = NameOf(cs[k])}

\* The entries of the map the Builder holds, or of the Catalog built.
Entries ==
    IF builder # None THEN builder[1]
    ELSE IF outcome # None /\ outcome[1].ok
         THEN [i \in DOMAIN outcome[1].val |->
                  [name |-> outcome[1].val[i].name, service |-> outcome[1].val[i].daemon]]
         ELSE <<>>

\* C37: add_logger and add_runner called with a name that its namespace
\* holds return ServiceExists of that name and replace nothing: every name
\* of the map stands there once, with the service of the first call that
\* passed it; a logger and a runner of the same local name are two entries.
C37_FirstRegistrationWins ==
    /\ calls # <<>> /\ calls[Len(calls)].op # "build" =>
          IF Earlier(calls, Len(calls)) # {}
          THEN outcome[1] = Err(ServiceExists(NameOf(calls[Len(calls)]))) /\ builder = None
          ELSE outcome[1].ok /\ builder = Some(outcome[1].val)
    /\ \A i, j \in DOMAIN Entries : i # j => Entries[i].name # Entries[j].name
    /\ \A i \in DOMAIN Entries :
          \E k \in DOMAIN calls :
              /\ calls[k].op # "build" /\ NameOf(calls[k]) = Entries[i].name
              /\ Earlier(calls, k) = {}
              /\ Entries[i].service.id = calls[k].arg[2]
              /\ Entries[i].service.kind = IF calls[k].op = "add_logger" THEN "Logger" ELSE "Runner"
    /\ builder # None =>
          \A k \in DOMAIN calls : \E i \in DOMAIN Entries : Entries[i].name = NameOf(calls[k])

C37_Witness ==
    /\ Len(calls) = 3 /\ builder = None /\ ~outcome[1].ok
    /\ calls[1].op = "add_logger" /\ calls[2].op = "add_runner" /\ calls[3].op = "add_runner"
    /\ calls[1].arg[1] = "a" /\ calls[2].arg[1] = "a" /\ calls[3].arg[1] = "a"

----------------------------------------------------------------------------
(* Properties of template substitution                                     *)

\* s holds p somewhere.
Contains(s, p) == \E i \in 0..(Len(s) - Len(p)) : SubSeq(s, i + 1, i + Len(p)) = p

\* The orders in which a map of these bindings can be iterated.
Orders(m) ==
    {[i \in DOMAIN m |-> m[f[i]]] :
        f \in {g \in [DOMAIN m -> DOMAIN m] : \A i, j \in DOMAIN m : i # j => g[i] # g[j]}}

\* The template read once from the left, every placeholder of a bound key
\* replaced by the value of the key and every other character kept.
RECURSIVE Expand(_, _)
Expand(s, m) ==
    IF s = <<>> THEN <<>>
    ELSE IF \E i \in DOMAIN m : StartsWith(s, PlaceholderKey(m[i].key))
         THEN LET i == CHOOSE j \in DOMAIN m : StartsWith(s, PlaceholderKey(m[j].key))
              IN m[i].value
                 \o Expand(SubSeq(s, Len(PlaceholderKey(m[i].key)) + 1, Len(s)), m)
         ELSE <<Head(s)>> \o Expand(Tail(s), m)

\* C14: substitute returns the template with every occurrence of the
\* placeholder of every bound key replaced by the key's value and all other
\* text, the placeholders of unbound keys included, unchanged.
C14_Substitute ==
    Len(result) >= 1 => result[1] = Expand(template, bindings)

\* The values hold no "~{".
NoPlaceholderStart(m) == \A i \in DOMAIN m : ~Contains(m[i].value, LEFT_PLACEHOLDER)

\* The values hold none of the characters placeholders are written with,
\* and no value, the empty one included, occurs inside a key of the map.
Inert(m) ==
    \A i \in DOMAIN m :
        /\ \A k \in DOMAIN m[i].value : m[i].value[k] \notin {"~", "{", "}"}
        /\ \A j \in DOMAIN m : ~Contains(m[j].key, m[i].value)

\* C15 (amended): substituting again what substitute returned changes
\* nothing, for every template and every map whose values hold none of
\* `~`, `{`, `}` and do not occur inside a key of the map.
C15_Idempotent ==
    Len(result) >= 2 /\ Inert(bindings) => result[2] = result[1]

\* C15 as stated: substitution is idempotent for every template and every
\* map whose values hold no `~{`.
C15_Original ==
    Len(result) >= 2 /\ NoPlaceholderStart(bindings) => result[2] = result[1]

C15_Witness ==
    /\ Len(result) = 2 /\ Inert(bindings) /\ Len(bindings) = 2
    /\ result[1] # template
    /\ Contains(template, <<"~", "{", "~", "{", "a", "}", "}">>)

\* C16: whatever the order in which the bindings are iterated, substitute
\* returns the same string.
C16_OrderIndependent ==
    Len(result) >= 1 =>
        \A o \in Orders(bindings) : substitute_placeholders(template, o) = result[1]

\* The characters of a string with the place each has in the template, 0
\* for a character a replacement wrote.
Marked(s) == [i \in DOMAIN s |-> [c |-> s[i], at |-> i]]
Written(v) == [i \in DOMAIN v |-> [c |-> v[i], at |-> 0]]
Unmarked(ms) == [i \in DOMAIN ms |-> ms[i].c]

\* The characters stand in the template, one next to the other.
InTemplate(ms) ==
    \A i \in DOMAIN ms : ms[i].at # 0 /\ (i > 1 => ms[i].at = ms[i - 1].at + 1)

\* str::replace on the marked string, and whether one of its matches is
\* not a placeholder of the template.
RECURSIVE ReplaceMarked(_, _, _)
ReplaceMarked(ms, from, to) ==
    IF ms = <<>> THEN <<>>
    ELSE IF StartsWith(Unmarked(ms), from)
         THEN Written(to) \o ReplaceMarked(SubSeq(ms, Len(from) + 1, Len(ms)), from, to)
         ELSE <<Head(ms)>> \o ReplaceMarked(Tail(ms), from, to)

RECURSIVE MatchesCreated(_, _)
MatchesCreated(ms, from) ==
    IF ms = <<>> THEN FALSE
    ELSE IF StartsWith(Unmarked(ms), from)
         THEN \/ ~InTemplate(SubSeq(ms, 1, Len(from)))
              \/ MatchesCreated(SubSeq(ms, Len(from) + 1, Len(ms)), from)
         ELSE MatchesCreated(Tail(ms), from)

\* substitute_placeholders on the marked string.
RECURSIVE SubstituteMarked(_, _)
SubstituteMarked(ms, substitutions) ==
    IF substitutions = <<>> THEN ms
    ELSE SubstituteMarked(
            ReplaceMarked(ms, PlaceholderKey(substitutions[1].key), substitutions[1].value),
            Tail(substitutions))

\* One of the replacements of the call replaces a placeholder that is not
\* one of the template.
RECURSIVE ExpandsCreated(_, _)
ExpandsCreated(ms, substitutions) ==
    IF substitutions = <<>> THEN FALSE
    ELSE \/ MatchesCreated(ms, PlaceholderKey(substitutions[1].key))
         \/ ExpandsCreated(
               ReplaceMarked(ms, PlaceholderKey(substitutions[1].key), substitutions[1].value),
               Tail(substitutions))

\* C32: no recursive expansion and no nesting: whatever the order of the
\* bindings, every placeholder a call of substitute replaces stands in the
\* template; one that a replacement wrote, or that a replacement put
\* together out of the text around it, is never replaced.
C32_NoRecursiveExpansion ==
    Len(result) >= 1 =>
        /\ Unmarked(SubstituteMarked(Marked(template), bindings)) = result[1]
        /\ \A o \in Orders(bindings) : ~ExpandsCreated(Marked(template), o)

====
